---- MODULE Spec2Model ----
(***************************************************************************)
(* The animated-cursor layer of tattoy:                                    *)
(* crates/tattoy/src/tattoys/animated_cursor.rs.                           *)
(*                                                                         *)
(* AnimatedCursor::start supervises AnimatedCursor::main, which subscribes *)
(* to the control bus, constructs the orchestrator (GPU pipeline + layer   *)
(* base) and then loops on tokio::select! between the frame tick (render)  *)
(* and the control bus (handle_protocol_message).                          *)
(*                                                                         *)
(* The GPU pipeline, the layer base (Tattoyer), the shared state and the   *)
(* control bus are collaborators: each call into them is an entry of the   *)
(* call log `calls`, and each may succeed, return an error or panic, which *)
(* the actions draw as the input `fault`.                                  *)
(***************************************************************************)
EXTENDS Integers, Sequences, FiniteSets, TLC

\* ------------------------------------------------------------- bounds
\* Iterations of the select! loop that are followed.
MaxSteps == 2
\* Capacity of the broadcast channel.
BusCap == 2

\* Terminal sizes, <<columns, rows>>, that the host resizes between.
TtySizes == {<<1, 2>>, <<2, 1>>}

\* The sizes a terminal starts with: TtySizes and the 10 x 5 terminal.
InitialTtySizes == TtySizes \cup {<<10, 5>>}

\* Messages the host publishes on the control bus: enough to overflow it.
MaxPublish == BusCap + 1

\* ------------------------------------------------------------- Config
\* Config::default(). The f32 opacity is modelled by its percentage.
DefaultConfig ==
    [ enabled |-> FALSE,
      path |-> "cursor_shader",
      opacity |-> 75,
      layer |-> -1,
      upload_tty_as_pixels |-> FALSE ]

\* The config after the user has changed it.
ReloadedConfig ==
    [ enabled |-> TRUE,
      path |-> "cursor_shader",
      opacity |-> 50,
      layer |-> 2,
      upload_tty_as_pixels |-> TRUE ]

\* ------------------------------------------------------------- protocol
Msg(kind, w, h) == [kind |-> kind, width |-> w, height |-> h]

NoMsg == Msg("none", 0, 0)

\* crate::run::Protocol: Repaint, End, and a resize to the terminal's size
\* for the messages that are forwarded opaquely.
Messages(size) ==
    {Msg("Repaint", 0, 0), Msg("End", 0, 0), Msg("Resize", size.width, size.height)}

\* Result<Protocol, RecvError> of protocol.recv()
RecvOk(m) == [ok |-> TRUE, msg |-> m, err |-> "none"]

RecvError(e) == [ok |-> FALSE, msg |-> NoMsg, err |-> e]

\* ------------------------------------------------------------- outcomes
\* What a fallible step ends with: Ok, Err(point) or a panic at point.
Outcome(kind, point, x, y) == [kind |-> kind, point |-> point, x |-> x, y |-> y]

OkOutcome == Outcome("Ok", "none", 0, 0)

NoFault == <<"none", "none">>

\* The outcome a collaborator's fault produces: an error return or a panic.
FaultOutcome(fault) ==
    Outcome(IF fault[2] = "panic" THEN "Panic" ELSE "Err", fault[1], 0, 0)

\* ------------------------------------------------------------- collaborators
\* The colour of pixel (x, y) of the image the n-th gpu.render() produced.
\* Images are injective in (x, y), so that a wrong source pixel shows.
ImagePixel(n, x, y) == <<n, x, y>>

\* The image of the pipeline's n-th render: as large as the pipeline is.
Image(n, w, h) == [id |-> n, width |-> w, height |-> h]

\* image.get_pixel_checked(x, y): None outside the image.
GetPixelWrapping(image, x, y) ==
    [some |-> TRUE, pixel |-> ImagePixel(image.id, x % image.width, y % image.height)]

\* image.get_pixel_checked(x, y): None outside the image.
GetPixelChecked(image, x, y) ==
    IF x >= 0 /\ x < image.width /\ y >= 0 /\ y < image.height
    THEN [some |-> TRUE, pixel |-> ImagePixel(image.id, x, y)]
    ELSE [some |-> FALSE, pixel |-> ImagePixel(0, 0, 0)]

\* A surface is the pixels added since it was initialised, in the order
\* they were added: <<x, y, colour>>.
EmptySurface == <<>>

\* surface.add_pixel(x, y, colour)
AddPixel(surface, x, y, colour) == Append(surface, <<x, y, colour>>)

NoTexture == [uploads |-> 0, tty_as_pixels |-> FALSE]

\* The orchestrator before AnimatedCursor::new has returned.
NoCursor ==
    [ tattoy |-> [ width |-> 0, height |-> 0, opacity |-> 0, layer |-> 0,
                   surface |-> EmptySurface, msgs |-> <<>> ],
      gpu |-> [ width |-> 0, height |-> 0, cursor |-> <<0, 0>>,
                texture |-> NoTexture, msgs |-> <<>>, renders |-> 0 ] ]

\* What a step of the orchestrator returns: its outcome, the orchestrator
\* after it and the collaborator calls it made, in order.
Step(outcome, self, calls) == [outcome |-> outcome, self |-> self, calls |-> calls]

\* GPU::handle_protocol_message(&message): the pipeline follows a resize
\* when `follows`, and keeps its size otherwise.
GpuHandleProtocolMessage(gpu, message, follows) ==
    [ gpu EXCEPT
        !.msgs = Append(@, message),
        !.width = IF message.kind = "Resize" /\ follows THEN message.width ELSE @,
        !.height = IF message.kind = "Resize" /\ follows THEN message.height * 2 ELSE @ ]

\* Tattoyer::handle_common_protocol_messages(message): resize bookkeeping.
HandleCommonProtocolMessages(tattoy, message) ==
    [ tattoy EXCEPT
        !.msgs = Append(@, message),
        !.width = IF message.kind = "Resize" THEN message.width ELSE @,
        !.height = IF message.kind = "Resize" THEN message.height ELSE @ ]

\* ------------------------------------------------------------- AnimatedCursor
\* AnimatedCursor::new
New(state, fault) ==
    LET shader_directory == state.config_path
        shader_path == state.config.path
        tty_size == state.tty_size
    IN  IF fault[1] = "gpu.new"
        THEN Step(FaultOutcome(fault), NoCursor, <<"gpu.new">>)
        ELSE LET gpu == [ width |-> tty_size.width,
                          height |-> tty_size.height * 2,
                          cursor |-> <<0, 0>>,
                          texture |-> NoTexture,
                          msgs |-> <<>>,
                          renders |-> 0 ]
                 layer == state.config.layer
                 opacity == state.config.opacity
                 tattoy == [ width |-> state.tty_size.width,
                             height |-> state.tty_size.height,
                             opacity |-> opacity,
                             layer |-> layer,
                             surface |-> EmptySurface,
                             msgs |-> <<>> ]
             IN  Step(OkOutcome, [tattoy |-> tattoy, gpu |-> gpu],
                      <<"gpu.new", "tattoyer.new">>)

\* IsEnd with the match dropped: End is a message like any other.
IsEndNever(result) == FALSE

\* IsEnd matching a receive error as well as End.
IsEndOrError(result) == ~result.ok \/ result.msg.kind = "End"

\* matches!(result, Ok(Protocol::End))
IsEnd(result) == result.ok /\ result.msg.kind = "End"

\* UploadTtyAsPixels with the flag of the default config instead of the
\* one shared state holds now.
UploadTtyAsPixelsStale(self, state, fault) ==
    LET is_upload_tty_as_pixels == DefaultConfig.upload_tty_as_pixels
        c1 == <<"upload_tty_as_pixels", "tattoy.get_tty_image_for_upload">>
    IN  IF fault[1] = "tattoy.get_tty_image_for_upload"
        THEN Step(FaultOutcome(fault), self, c1)
        ELSE Step(OkOutcome,
                  [self EXCEPT !.gpu.texture =
                      [ uploads |-> @.uploads + 1,
                        tty_as_pixels |-> is_upload_tty_as_pixels ]],
                  c1 \o <<"gpu.update_ichannel_texture_data">>)

\* AnimatedCursor::upload_tty_as_pixels
UploadTtyAsPixels(self, state, fault) ==
    LET is_upload_tty_as_pixels == state.config.upload_tty_as_pixels
        c1 == <<"upload_tty_as_pixels", "tattoy.get_tty_image_for_upload">>
    IN  IF fault[1] = "tattoy.get_tty_image_for_upload"
        THEN Step(FaultOutcome(fault), self, c1)
        ELSE Step(OkOutcome,
                  [self EXCEPT !.gpu.texture =
                      [ uploads |-> @.uploads + 1,
                        tty_as_pixels |-> is_upload_tty_as_pixels ]],
                  c1 \o <<"gpu.update_ichannel_texture_data">>)

\* IsRepaint with the match dropped: every message uploads.
IsRepaintAlways(message) == TRUE

\* matches!(&message, Protocol::Repaint)
IsRepaint(message) == message.kind = "Repaint"

\* HandleMessage that forwards to the pipeline's handler only.
HandleMessageGpuOnly(self, state, message, follows, fault) ==
    LET upload == IF IsRepaint(message)
                  THEN UploadTtyAsPixels(self, state, fault)
                  ELSE Step(OkOutcome, self, <<>>)
        c1 == upload.calls \o <<"gpu.handle_protocol_message">>
        s1 == [upload.self EXCEPT
                 !.gpu = GpuHandleProtocolMessage(@, message, follows)]
    IN  IF upload.outcome.kind # "Ok" THEN upload
        ELSE IF fault[1] = "gpu.handle_protocol_message"
        THEN Step(FaultOutcome(fault), upload.self, c1)
        ELSE Step(OkOutcome, s1, c1)

\* The Ok(message) arm of handle_protocol_message.
HandleMessage(self, state, message, follows, fault) ==
    LET upload == IF IsRepaint(message)
                  THEN UploadTtyAsPixels(self, state, fault)
                  ELSE Step(OkOutcome, self, <<>>)
        c1 == upload.calls \o <<"gpu.handle_protocol_message">>
        c2 == c1 \o <<"tattoy.handle_common_protocol_messages">>
        s1 == [upload.self EXCEPT
                 !.gpu = GpuHandleProtocolMessage(@, message, follows)]
        s2 == [s1 EXCEPT
                 !.tattoy = HandleCommonProtocolMessages(@, message)]
    IN  IF upload.outcome.kind # "Ok" THEN upload
        ELSE IF fault[1] = "gpu.handle_protocol_message"
        THEN Step(FaultOutcome(fault), upload.self, c1)
        ELSE IF fault[1] = "tattoy.handle_common_protocol_messages"
        THEN Step(FaultOutcome(fault), s1, c2)
        ELSE Step(OkOutcome, s2, c2)

\* LogRecvError returning the receive error to the loop.
LogRecvErrorFatal(self) ==
    Step(Outcome("Err", "protocol.recv", 0, 0), self, <<"tracing.error">>)

\* The Err(error) arm of handle_protocol_message: tracing::error! only.
LogRecvError(self) == Step(OkOutcome, self, <<"tracing.error">>)

\* AnimatedCursor::handle_protocol_message
HandleProtocolMessage(self, state, protocol_result, follows, fault) ==
    IF protocol_result.ok
    THEN HandleMessage(self, state, protocol_result.msg, follows, fault)
    ELSE LogRecvError(self)

\* The conversion as a wrapping cast (`as`), which never fails.
TryIntoU32Cast(v) == [ok |-> TRUE, val |-> IF v >= 0 THEN v ELSE v + 65536]

\* cursor.0.try_into()? : an unsigned value, or a conversion error. The
\* cursor positions of the model are far below the target's maximum.
TryIntoU32(v) ==
    IF v >= 0 THEN [ok |-> TRUE, val |-> v] ELSE [ok |-> FALSE, val |-> 0]

\* u32::from(self.tattoy.height) * 2: a u16 doubled does not overflow a u32.
TtyHeightInPixels(tattoy) == tattoy.height * 2

\* YReversed without the reversal.
YNotReversed(tty_height_in_pixels, y) == y

\* YReversed without offset_for_reversal.
YReversedNoOffset(tty_height_in_pixels, y) == tty_height_in_pixels - y

\* tty_height_in_pixels - y - offset_for_reversal. The loop calls it with
\* y < tty_height_in_pixels only, where the u32 subtraction does not wrap.
YReversed(tty_height_in_pixels, y) ==
    LET offset_for_reversal == 1
    IN  tty_height_in_pixels - y - offset_for_reversal

\* What the pixel loop returns: its outcome, the layer base after it and
\* the get_pixel_checked calls it made, in order.
Composited(outcome, tattoy, fetched) ==
    [outcome |-> outcome, tattoy |-> tattoy, fetched |-> fetched]

RECURSIVE CompositeRow(_, _, _, _, _, _)
\* The inner loop of render, for x in 0..self.tattoy.width, from x on.
CompositeRow(y, x, tattoy, image, fetched, fault) ==
    LET tty_height_in_pixels == TtyHeightInPixels(tattoy)
        y_reversed == YReversed(tty_height_in_pixels, y)
        pixel == GetPixelChecked(image, x, y_reversed)
        fetched1 == Append(fetched, <<x, y_reversed>>)
    IN  IF x >= tattoy.width
        THEN Composited(OkOutcome, tattoy, fetched)
        ELSE IF ~pixel.some
        THEN Composited(Outcome("Err", "get_pixel_checked", x, y_reversed),
                        tattoy, fetched1)
        ELSE IF fault[1] = "surface.add_pixel"
        THEN Composited(FaultOutcome(fault), tattoy, fetched1)
        ELSE CompositeRow(
                 y, x + 1,
                 [tattoy EXCEPT !.surface = AddPixel(@, x, y, pixel.pixel)],
                 image, fetched1, fault)

RECURSIVE CompositeFrom(_, _, _, _, _)
\* The outer loop of render, for y in 0..tty_height_in_pixels, from y on.
CompositeFrom(y, tattoy, image, fetched, fault) ==
    LET row == CompositeRow(y, 0, tattoy, image, fetched, fault)
    IN  IF y >= TtyHeightInPixels(tattoy)
        THEN Composited(OkOutcome, tattoy, fetched)
        ELSE IF row.outcome.kind # "Ok"
        THEN row
        ELSE CompositeFrom(y + 1, row.tattoy, image, row.fetched, fault)

\* What render returns: a Step, the pixel fetches it made and the frames
\* it submitted on the outbound channel.
Rendered(step, fetched, sent) ==
    [ outcome |-> step.outcome, self |-> step.self, calls |-> step.calls,
      fetched |-> fetched, sent |-> sent ]

\* Tattoyer::send_output: the frame the layer base submits, with the number
\* of pixels of its surface and the image they come from.
Frame(tattoy, image) ==
    [ opacity |-> tattoy.opacity, layer |-> tattoy.layer,
      pixels |-> Len(tattoy.surface), image |-> image.id ]

\* The config a render pass applies, read from a stale copy: the default.
ReadConfigStale(state) == DefaultConfig

\* let config = self.tattoy.state.config.read().await.animated_cursor.clone()
ReadConfig(state) == state.config

\* The steps of render in the order of its statements; "composite" is the
\* pair of loops over the layer's pixels.
RenderSteps ==
    << "surface.cursor_position", "gpu.update_cursor_position", "config.read",
       "tattoy.initialise_surface", "tattoy.opacity_layer", "gpu.render",
       "composite", "tattoy.send_output" >>

\* AnimatedCursor::render
Render(self, state, cursor, fault) ==
    LET cx == TryIntoU32(cursor[1])
        cy == TryIntoU32(cursor[2])
        c1 == SubSeq(RenderSteps, 1, 1)
        c2 == SubSeq(RenderSteps, 1, 6)
        c2c == SubSeq(RenderSteps, 1, 7)
        s1 == [self EXCEPT !.gpu.cursor = <<cx.val, cy.val>>]
        config == ReadConfig(state)
        s2 == [s1 EXCEPT !.tattoy.surface = EmptySurface]
        s3 == [s2 EXCEPT !.tattoy.opacity = config.opacity,
                         !.tattoy.layer = config.layer]
        s4 == [s3 EXCEPT !.gpu.renders = @ + 1]
        image == Image(s4.gpu.renders, s4.gpu.width, s4.gpu.height)
        loop == CompositeFrom(0, s4.tattoy, image, <<>>, fault)
        s5 == [s4 EXCEPT !.tattoy = loop.tattoy]
        c3 == RenderSteps
    IN  IF ~cx.ok \/ ~cy.ok
        THEN Rendered(Step(Outcome("Err", "try_into", 0, 0), self, c1), <<>>, <<>>)
        ELSE IF fault[1] = "gpu.render"
        THEN Rendered(Step(FaultOutcome(fault), s3, c2), <<>>, <<>>)
        ELSE IF loop.outcome.kind # "Ok"
        THEN Rendered(Step(loop.outcome, s5, c2c), loop.fetched, <<>>)
        ELSE IF fault[1] = "tattoy.send_output"
        THEN Rendered(Step(FaultOutcome(fault), s5, c3), loop.fetched, <<>>)
        ELSE Rendered(Step(OkOutcome, s5, c3), loop.fetched,
                      <<Frame(s5.tattoy, image)>>)

\* state.send_notification(title, Level::Error, Some(detail), true)
Notification(title, detail) ==
    [title |-> title, level |-> "Error", detail |-> detail, persistent |-> TRUE]

\* MayPanic without the notification of an error.
MayPanicSilent(result) == [outcome |-> result, sent |-> <<>>]

\* The async block of start, given how main ended: what the block ends with
\* (its own result, or the panic unwinding through it) and what it sent.
MayPanic(result) ==
    IF result.kind = "Err"
    THEN [ outcome |-> result,
           sent |-> <<Notification("GPU pipeline error", result.point)>> ]
    ELSE [outcome |-> result, sent |-> <<>>]

\* Start without catch_unwind: the panic unwinds through start.
StartNoCatch(result) ==
    LET may_panic == MayPanic(result)
    IN  [ returns |-> IF may_panic.outcome.kind = "Panic" THEN "Panic" ELSE "Ok",
          sent |-> may_panic.sent ]

\* start from may_panic.catch_unwind().await on: what start returns and
\* every notification it has sent by then.
Start(result) ==
    LET may_panic == MayPanic(result)
    IN  IF may_panic.outcome.kind = "Panic"
        THEN [ returns |-> "Ok",
               sent |-> may_panic.sent \o
                   <<Notification("GPU pipeline panic", may_panic.outcome.point)>> ]
        ELSE [returns |-> "Ok", sent |-> may_panic.sent]

\* ------------------------------------------------------------- inputs
\* Faults of the collaborators that construction, a message and a render
\* pass call.
NewFaults == {NoFault, <<"gpu.new", "err">>, <<"gpu.new", "panic">>}

MessageFaults ==
    { NoFault, <<"tattoy.get_tty_image_for_upload", "err">>,
      <<"gpu.handle_protocol_message", "err">>,
      <<"gpu.handle_protocol_message", "panic">>,
      <<"tattoy.handle_common_protocol_messages", "err">> }

RenderFaults ==
    { NoFault, <<"gpu.render", "err">>, <<"gpu.render", "panic">>,
      <<"surface.add_pixel", "err">>, <<"tattoy.send_output", "err">> }

\* Cursor positions the terminal surface reports.
CursorPositions == {<<1, 0>>, <<0, -1>>}

\* ------------------------------------------------------------- state
VARIABLES
    pc,              \* where start is: "start", "new", "loop" or "done"
    state,           \* the host's SharedState
    protocol,        \* this subscriber's side of the control bus
    host,            \* what the host has done so far
    animated_cursor, \* the orchestrator: [tattoy, gpu]
    calls,           \* the calls of the last step, in order
    fetched,         \* the get_pixel_checked calls of the last render pass
    frames,          \* the frames submitted on the outbound channel
    notifications,   \* the notifications sent to the host
    mainResult,      \* how main ended
    startResult,     \* what start returned
    lastEvent,       \* the last event the loop consumed
    count            \* steps, render passes, messages handled so far

vars ==
    << pc, state, protocol, host, animated_cursor, calls, fetched, frames,
       notifications, mainResult, startResult, lastEvent, count >>

NoOutcome == Outcome("none", "none", 0, 0)

\* An event of the loop: the tick or the received message, the config and
\* the cursor position at that moment, and what the branch's call returned.
Event(kind, msg, config, cursor, outcome) ==
    [ kind |-> kind, msg |-> msg, config |-> config, cursor |-> cursor,
      outcome |-> outcome ]

\* The state when start is called on a terminal of one of `sizes`.
InitWith(sizes) ==
    /\ pc = "start"
    /\ \E size \in sizes :
         state = [ config_path |-> "config",
                   config |-> DefaultConfig,
                   tty_size |-> [width |-> size[1], height |-> size[2]] ]
    /\ protocol = [queue |-> <<>>, lagged |-> FALSE, delivered |-> <<>>]
    /\ host = [published |-> 0, sent |-> <<>>, early |-> 0, dropped |-> 0]
    /\ animated_cursor = NoCursor
    /\ calls = <<>>
    /\ fetched = <<>>
    /\ frames = <<>>
    /\ notifications = <<>>
    /\ mainResult = NoOutcome
    /\ startResult = "none"
    /\ lastEvent = Event("none", NoMsg, DefaultConfig, <<0, 0>>, NoOutcome)
    /\ count = [steps |-> 0, renders |-> 0, messages |-> 0, repaints |-> 0,
                uploads |-> 0, errors |-> 0]

Init == InitWith(TtySizes)

InitWide == InitWith(InitialTtySizes)

\* main has ended with `result`: the rest of start runs.
Return(result) ==
    LET start == Start(result)
    IN  /\ pc' = "done"
        /\ mainResult' = result
        /\ startResult' = start.returns
        /\ notifications' = notifications \o start.sent

Continue ==
    /\ pc' = "loop"
    /\ UNCHANGED <<mainResult, startResult, notifications>>

\* The `?` of the loop that only logs an error and goes on.
TryLogged(outcome) ==
    IF outcome.kind \in {"Ok", "Err"} THEN Continue ELSE Return(outcome)

\* The `?` after a call of main: an outcome that is not Ok ends main.
Try(outcome) ==
    IF outcome.kind = "Ok" THEN Continue ELSE Return(outcome)

\* A write lock on the shared state that stores the default config.
WriteLock(shared) == [shared EXCEPT !.config = DefaultConfig]

\* The shared state after it was accessed through .read().await guards.
ReadLock(shared) == shared

\* The outbound channel with the newest frame put first.
SubmitFirst(channel, sent) == sent \o channel

\* The outbound channel after send_output: frames in the order sent.
Submit(channel, sent) == channel \o sent

\* A subscription taken only once the orchestrator is constructed.
SubscribedAfterNew == pc = "loop"

\* Whether this task's receiver exists: subscribe() precedes Self::new.
Subscribed == pc \in {"new", "loop"}

\* How often `call` is in a call log.
Calls(log, call) == Cardinality({i \in DOMAIN log : log[i] = call})

\* let mut protocol = state.protocol_tx.subscribe();
Subscribe ==
    /\ pc = "start"
    /\ pc' = "new"
    /\ protocol' = [queue |-> <<>>, lagged |-> FALSE, delivered |-> <<>>]
    /\ UNCHANGED << state, host, animated_cursor, calls, fetched, frames,
                    notifications, mainResult, startResult, lastEvent, count >>

\* let mut animated_cursor = Self::new(output, Arc::clone(state)).await?;
Construct ==
    /\ pc = "new"
    /\ \E fault \in NewFaults :
         LET new == New(state, fault)
         IN  /\ animated_cursor' = new.self
             /\ calls' = new.calls
             /\ Try(new.outcome)
    /\ state' = ReadLock(state)
    /\ UNCHANGED <<protocol, host, fetched, frames, lastEvent, count>>

\* The select! branch of the frame tick: animated_cursor.render().await?
Tick ==
    /\ pc = "loop"
    /\ count.steps < MaxSteps
    /\ \E cursor \in CursorPositions, fault \in RenderFaults :
         LET render == Render(animated_cursor, state, cursor, fault)
         IN  /\ animated_cursor' = render.self
             /\ calls' = render.calls
             /\ fetched' = render.fetched
             /\ frames' = Submit(frames, render.sent)
             /\ lastEvent' = Event("tick", NoMsg, state.config, cursor,
                                   render.outcome)
             /\ Try(render.outcome)
    /\ count' = [count EXCEPT !.steps = @ + 1, !.renders = @ + 1]
    /\ state' = ReadLock(state)
    /\ UNCHANGED <<protocol, host>>

\* protocol.recv() when it is ready: the lag first, then the oldest message.
RecvReady == protocol.lagged \/ protocol.queue # <<>>

Recv ==
    IF protocol.lagged THEN RecvError("Lagged") ELSE RecvOk(Head(protocol.queue))

\* The select! branch of the control bus.
Receive ==
    /\ pc = "loop"
    /\ count.steps < MaxSteps
    /\ RecvReady
    /\ LET result == Recv
           kind == IF result.ok THEN "msg" ELSE "recv_err"
       IN  /\ protocol' = IF protocol.lagged
                          THEN [protocol EXCEPT !.lagged = FALSE]
                          ELSE [protocol EXCEPT !.queue = Tail(@),
                                                !.delivered = Append(@, result.msg)]
           /\ IF IsEnd(result)
              THEN /\ Return(OkOutcome)
                   /\ lastEvent' = Event(kind, result.msg, state.config,
                                         <<0, 0>>, OkOutcome)
                   /\ calls' = <<>>
                   /\ count' = [count EXCEPT !.steps = @ + 1]
                   /\ UNCHANGED animated_cursor
              ELSE \E follows \in IF result.msg.kind = "Resize" THEN BOOLEAN ELSE {TRUE},
                      fault \in IF result.ok THEN MessageFaults ELSE {NoFault} :
                     LET handled == HandleProtocolMessage(
                                        animated_cursor, state, result, follows, fault)
                     IN  /\ animated_cursor' = handled.self
                         /\ calls' = handled.calls
                         /\ count' =
                              [ count EXCEPT
                                  !.steps = @ + 1,
                                  !.messages = @ + (IF result.ok THEN 1 ELSE 0),
                                  !.repaints = @ + (IF result.ok /\ result.msg.kind = "Repaint"
                                                    THEN 1 ELSE 0),
                                  !.uploads = @ + Calls(handled.calls, "upload_tty_as_pixels"),
                                  !.errors = @ + Calls(handled.calls, "tracing.error") ]
                         /\ lastEvent' = Event(kind, result.msg, state.config,
                                               <<0, 0>>, handled.outcome)
                         /\ Try(handled.outcome)
    /\ state' = ReadLock(state)
    /\ UNCHANGED <<host, fetched, frames>>

\* The host publishes a message on the control bus once this task has
\* subscribed; a full channel drops its oldest message and the receiver lags.
\* When `recorded`, the host keeps what it published, how many messages it
\* published while the orchestrator was under construction, and how many
\* messages the channel dropped.
PublishAs(recorded) ==
    /\ pc \in {"new", "loop"}
    /\ host.published < MaxPublish
    /\ \E m \in Messages(state.tty_size) :
         LET full == Len(protocol.queue) = BusCap
         IN  /\ protocol' =
                   IF ~Subscribed THEN protocol
                   ELSE IF full
                   THEN [protocol EXCEPT !.queue = Append(Tail(@), m),
                                         !.lagged = TRUE]
                   ELSE [protocol EXCEPT !.queue = Append(@, m)]
             /\ host' = [ host EXCEPT
                            !.published = @ + 1,
                            !.sent = IF recorded THEN Append(@, m) ELSE @,
                            !.early = @ + (IF recorded /\ pc = "new" THEN 1 ELSE 0),
                            !.dropped = @ + (IF recorded /\ Subscribed /\ full
                                             THEN 1 ELSE 0) ]
    /\ UNCHANGED << pc, state, animated_cursor, calls, fetched, frames,
                    notifications, mainResult, startResult, lastEvent, count >>

Publish == PublishAs(FALSE)

PublishRecorded == PublishAs(TRUE)

\* The host writes the shared state: the layer's config or the terminal size.
HostWrite ==
    /\ pc \in {"new", "loop"}
    /\ \/ \E config \in {DefaultConfig, ReloadedConfig} :
            state' = [state EXCEPT !.config = config]
       \/ \E size \in TtySizes :
            state' = [state EXCEPT !.tty_size = [width |-> size[1], height |-> size[2]]]
    /\ state' # state
    /\ UNCHANGED << pc, protocol, host, animated_cursor, calls, fetched, frames,
                    notifications, mainResult, startResult, lastEvent, count >>

Next == Subscribe \/ Construct \/ Tick \/ Receive \/ Publish \/ HostWrite

Spec == Init /\ [][Next]_vars

\* The layer on a terminal the host does not resize or reconfigure,
\* the 10 x 5 terminal included.
NextWide == Subscribe \/ Construct \/ Tick \/ Receive \/ Publish

SpecWide == InitWide /\ [][NextWide]_vars

\* The layer with the host's publications recorded.
NextBus == Subscribe \/ Construct \/ Tick \/ Receive \/ PublishRecorded

SpecBus == Init /\ [][NextBus]_vars

\* ------------------------------------------------------------- properties
Done == pc = "done"

\* The last event the loop consumed is the End message.
EndReceived == lastEvent.kind = "msg" /\ lastEvent.msg.kind = "End"

\* C1: when main ends with an error, start returns that error.
C1_StartPropagatesError ==
    (Done /\ mainResult.kind = "Err") => startResult = "Err"

\* C2: a panic inside main never escapes start: start returns Ok after
\* exactly one notification, "GPU pipeline panic", Error, persistent.
C2_PanicContained ==
    (Done /\ mainResult.kind = "Panic") =>
        /\ startResult = "Ok"
        /\ Len(notifications) = 1
        /\ notifications[1].title = "GPU pipeline panic"
        /\ notifications[1].level = "Error"
        /\ notifications[1].persistent

\* A panic while a message is handled has been contained.
C2_Witness ==
    /\ Done
    /\ mainResult = Outcome("Panic", "gpu.handle_protocol_message", 0, 0)
    /\ startResult = "Ok"
    /\ Len(notifications) = 1

\* C3: when start has returned, it has sent exactly one Error notification
\* if main ended with an error or a panic, and none if main ended on End;
\* it sends none before main has ended.
C3_OneReportPerFatalEnd ==
    /\ startResult = "none" => notifications = <<>>
    /\ startResult # "none" =>
         /\ Done
         /\ mainResult.kind \in {"Ok", "Err", "Panic"}
         /\ mainResult.kind = "Ok" => EndReceived /\ notifications = <<>>
         /\ mainResult.kind \in {"Err", "Panic"} =>
              /\ Len(notifications) = 1
              /\ notifications[1].level = "Error"

\* A per-frame error has been reported once.
C3_Witness ==
    /\ Done
    /\ mainResult.kind = "Err"
    /\ mainResult.point = "tattoy.send_output"
    /\ Len(notifications) = 1
    /\ notifications[1].title = "GPU pipeline error"

\* C4: the iteration that receives End calls nothing and ends the loop,
\* and from then on no render pass runs, no frame is submitted and no
\* message is handled.
C4_EndTerminates ==
    /\ [](EndReceived => (Done /\ mainResult.kind = "Ok" /\ calls = <<>>))
    /\ [][EndReceived => /\ frames' = frames
                         /\ count' = count
                         /\ animated_cursor' = animated_cursor
                         /\ calls' = calls]_vars

\* End has been received after a frame was submitted.
C4_Witness == EndReceived /\ Done /\ Len(frames) = 1 /\ count.steps = 2

\* C5: main returns Ok only when the last event consumed is End.
C5_OkOnlyOnEnd ==
    /\ mainResult.kind = "Ok" => EndReceived
    /\ (lastEvent.kind \in {"tick", "recv_err"}
          \/ (lastEvent.kind = "msg" /\ lastEvent.msg.kind # "End"))
         => mainResult.kind # "Ok"

\* main has returned Ok on End after a render pass.
C5_Witness == Done /\ mainResult.kind = "Ok" /\ EndReceived /\ count.renders = 1

\* The last event the loop consumed is a receive error.
RecvErrorReceived == lastEvent.kind = "recv_err"

\* C6: a receive error is logged only: the loop keeps running, nothing is
\* returned or notified, and the step that consumes it makes no call to
\* the GPU pipeline or the layer base, changes neither and submits no frame.
C6_RecvErrorLoggedOnly ==
    /\ [](RecvErrorReceived =>
            /\ pc = "loop"
            /\ mainResult = NoOutcome
            /\ startResult = "none"
            /\ notifications = <<>>
            /\ calls = <<"tracing.error">>)
    /\ [][(RecvErrorReceived' /\ count'.steps # count.steps) =>
            /\ animated_cursor' = animated_cursor
            /\ frames' = frames
            /\ count'.errors = count.errors + 1
            /\ count'.uploads = count.uploads
            /\ count'.messages = count.messages
            /\ count'.renders = count.renders]_vars

\* After a receive error the loop has gone on to handle a message.
C6_Witness ==
    /\ count.errors = 1
    /\ lastEvent.kind = "msg"
    /\ count.messages = 1
    /\ calls # <<>>
    /\ pc = "loop"

\* The last event the loop consumed is a Repaint message.
RepaintReceived == lastEvent.kind = "msg" /\ lastEvent.msg.kind = "Repaint"

\* Every `later` in a call log comes after some `earlier`.
Before(log, earlier, later) ==
    \A j \in DOMAIN log :
        log[j] = later => \E i \in 1 .. (j - 1) : log[i] = earlier

\* C7: handling a Repaint runs the texture upload once, first: the upload
\* into the pipeline precedes the forward to the pipeline's handler, which
\* precedes the forward to the layer base's handler, and the texture is made
\* with the upload_tty_as_pixels that shared config held at that message.
C7_RepaintUploadsOnceFirst ==
    RepaintReceived =>
        /\ Calls(calls, "upload_tty_as_pixels") = 1
        /\ calls[1] = "upload_tty_as_pixels"
        /\ Calls(calls, "gpu.update_ichannel_texture_data") <= 1
        /\ Calls(calls, "gpu.handle_protocol_message") <= 1
        /\ Calls(calls, "tattoy.handle_common_protocol_messages") <= 1
        /\ Before(calls, "gpu.update_ichannel_texture_data",
                  "gpu.handle_protocol_message")
        /\ Before(calls, "gpu.handle_protocol_message",
                  "tattoy.handle_common_protocol_messages")
        /\ Calls(calls, "gpu.update_ichannel_texture_data") = 1 =>
             animated_cursor.gpu.texture.tty_as_pixels =
                 lastEvent.config.upload_tty_as_pixels
        /\ pc = "loop" =>
             calls = << "upload_tty_as_pixels", "tattoy.get_tty_image_for_upload",
                        "gpu.update_ichannel_texture_data",
                        "gpu.handle_protocol_message",
                        "tattoy.handle_common_protocol_messages" >>

\* A Repaint has been handled after the user turned upload_tty_as_pixels on.
C7_Witness ==
    /\ RepaintReceived
    /\ pc = "loop"
    /\ lastEvent.config.upload_tty_as_pixels
    /\ animated_cursor.gpu.texture = [uploads |-> 1, tty_as_pixels |-> TRUE]
    /\ Len(animated_cursor.tattoy.msgs) = 1

\* C8: the texture upload runs once per Repaint handled and at no other
\* event: the pipeline has as many textures as Repaints were handled (one
\* less when the terminal image of the last one could not be made, which ends
\* the loop), and a step that is not a Repaint makes no upload call.
C8_UploadOnlyOnRepaint ==
    /\ count.uploads = count.repaints
    /\ animated_cursor.gpu.texture.uploads =
         count.repaints -
             (IF mainResult.point = "tattoy.get_tty_image_for_upload" THEN 1 ELSE 0)
    /\ ~RepaintReceived =>
         /\ Calls(calls, "upload_tty_as_pixels") = 0
         /\ Calls(calls, "gpu.update_ichannel_texture_data") = 0

\* A Repaint and then a frame tick: one upload.
C8_Witness ==
    /\ lastEvent.kind = "tick"
    /\ count.renders = 1
    /\ count.repaints = 1
    /\ animated_cursor.gpu.texture.uploads = 1
    /\ Len(frames) = 1

\* The last event the loop consumed is a frame tick whose render pass
\* returned Ok.
RenderSucceeded == lastEvent.kind = "tick" /\ pc = "loop"

\* C9: a successful render pass on W columns and H rows fetches W * 2H
\* pixels, one per destination pixel, and writes to each destination (x, y)
\* the colour of source (x, 2H - y - 1), once; 100 fetches for 10 x 5.
C9_RenderReversesEveryPixel ==
    RenderSucceeded =>
        LET W == animated_cursor.tattoy.width
            H == animated_cursor.tattoy.height
            n == animated_cursor.gpu.renders
            surface == animated_cursor.tattoy.surface
        IN  /\ Len(fetched) = W * 2 * H
            /\ Len(surface) = W * 2 * H
            /\ \A x \in 0 .. (W - 1), y \in 0 .. (2 * H - 1) :
                 /\ Cardinality({k \in DOMAIN surface :
                                   surface[k][1] = x /\ surface[k][2] = y}) = 1
                 /\ \A k \in DOMAIN surface :
                      (surface[k][1] = x /\ surface[k][2] = y) =>
                          /\ surface[k][3] = ImagePixel(n, x, 2 * H - y - 1)
                          /\ fetched[k] = <<x, 2 * H - y - 1>>
            /\ (W = 10 /\ H = 5) => Len(fetched) = 100

\* A render pass on the 10 x 5 terminal has succeeded.
C9_Witness ==
    /\ RenderSucceeded
    /\ animated_cursor.tattoy.width = 10
    /\ animated_cursor.tattoy.height = 5
    /\ Len(fetched) = 100
    /\ Len(frames) = 1

\* C10: for every height and every row y below it, YReversed is a row below
\* it and YReversed of that row is y again; so it is for the rows of the
\* last render pass, whose source rows are in `fetched`.
C10_RowReversalInvolution ==
    LET height == TtyHeightInPixels(animated_cursor.tattoy)
        surface == animated_cursor.tattoy.surface
    IN  /\ \A h \in 1 .. height : \A y \in 0 .. (h - 1) :
             /\ YReversed(h, y) \in 0 .. (h - 1)
             /\ YReversed(h, YReversed(h, y)) = y
        /\ (lastEvent.kind = "tick" /\ Calls(calls, "gpu.render") = 1) =>
             \A k \in DOMAIN surface :
                 /\ fetched[k][2] = YReversed(height, surface[k][2])
                 /\ fetched[k][2] \in 0 .. (height - 1)
                 /\ YReversed(height, fetched[k][2]) = surface[k][2]

\* A render pass has reversed the ten pixel rows of the 10 x 5 terminal.
C10_Witness ==
    /\ lastEvent.kind = "tick"
    /\ TtyHeightInPixels(animated_cursor.tattoy) = 10
    /\ Len(animated_cursor.tattoy.surface) = 100
    /\ fetched[1] = <<0, 9>>
    /\ fetched[100] = <<9, 0>>

\* The last event is a render pass that reached the loops over the pixels.
Compositing == lastEvent.kind = "tick" /\ Calls(calls, "composite") = 1

\* The rendered image is smaller than the layer's width x 2 * height.
ImageSmaller ==
    \/ animated_cursor.gpu.width < animated_cursor.tattoy.width
    \/ animated_cursor.gpu.height < TtyHeightInPixels(animated_cursor.tattoy)

\* C11: when the rendered image is smaller than the layer's bounds, the
\* render pass (unless add_pixel fails before) fails with the error of
\* get_pixel_checked, tagged with the coordinate it fetched last, which is
\* outside the image; it does not call send_output and submits no frame; the
\* surface holds exactly the pixels of the loop positions before the failure.
C11_SmallImageFailsRender ==
    (Compositing /\ ImageSmaller /\ lastEvent.outcome.point # "surface.add_pixel") =>
        LET last == fetched[Len(fetched)]
            W == animated_cursor.tattoy.width
            gpu == animated_cursor.gpu
            surface == animated_cursor.tattoy.surface
        IN  /\ lastEvent.outcome = Outcome("Err", "get_pixel_checked", last[1], last[2])
            /\ mainResult = lastEvent.outcome
            /\ ~(last[1] < gpu.width /\ last[2] < gpu.height)
            /\ Calls(calls, "tattoy.send_output") = 0
            /\ Len(frames) = count.renders - 1
            /\ Len(surface) = Len(fetched) - 1
            /\ \A k \in DOMAIN surface :
                 /\ surface[k][1] = (k - 1) % W
                 /\ surface[k][2] = (k - 1) \div W
                 /\ surface[k][3] = ImagePixel(gpu.renders, fetched[k][1], fetched[k][2])

\* A render pass on a layer of 2 x 1 cells with an image 1 pixel wide has
\* failed at (1, 1), after it wrote the one pixel before it.
C11_Witness ==
    /\ Compositing
    /\ ImageSmaller
    /\ animated_cursor.tattoy.width = 2
    /\ animated_cursor.gpu.width = 1
    /\ mainResult = Outcome("Err", "get_pixel_checked", 1, 1)
    /\ Len(animated_cursor.tattoy.surface) = 1
    /\ frames = <<>>

Negative(cursor) == cursor[1] < 0 \/ cursor[2] < 0

\* C13: a render pass whose cursor position has no negative coordinate
\* passes it, converted, to update_cursor_position; one with a negative
\* coordinate fails with the conversion error (an Err, not a panic) after
\* cursor_position alone: the pipeline's cursor is not updated, the pipeline
\* does not render, the surface keeps the pixels of the frame before and no
\* frame is submitted.
C13_CursorConversion ==
    lastEvent.kind = "tick" =>
        IF ~Negative(lastEvent.cursor)
        THEN /\ Calls(calls, "gpu.update_cursor_position") = 1
             /\ animated_cursor.gpu.cursor = lastEvent.cursor
        ELSE /\ lastEvent.outcome = Outcome("Err", "try_into", 0, 0)
             /\ mainResult = lastEvent.outcome
             /\ calls = <<"surface.cursor_position">>
             /\ animated_cursor.gpu.cursor # lastEvent.cursor
             /\ animated_cursor.gpu.renders = count.renders - 1
             /\ fetched = <<>>
             /\ Len(animated_cursor.tattoy.surface) =
                    IF frames = <<>> THEN 0 ELSE frames[Len(frames)].pixels
             /\ Len(frames) = count.renders - 1

\* The second render pass was given a negative row: the pipeline keeps the
\* cursor of the first pass and the one frame of the first pass is all.
C13_Witness ==
    /\ lastEvent.kind = "tick"
    /\ Negative(lastEvent.cursor)
    /\ Done
    /\ mainResult.point = "try_into"
    /\ animated_cursor.gpu.cursor = <<1, 0>>
    /\ Len(frames) = 1

\* The calls of message handling.
HandlerCalls ==
    { "upload_tty_as_pixels", "tattoy.get_tty_image_for_upload",
      "gpu.update_ichannel_texture_data", "gpu.handle_protocol_message",
      "tattoy.handle_common_protocol_messages", "tracing.error" }

\* The entries of a call log.
Called(log) == {log[i] : i \in DOMAIN log}

\* C14: frames are submitted in tick order, one render pass at a time: the
\* k-th frame comes from the k-th render pass (every pass before the last
\* one succeeded), each pass renders at most once, handles no message and
\* submits one frame when it succeeds and none when it fails; handling a
\* message renders and submits nothing.
C14_FramesInTickOrder ==
    /\ Len(frames) <= count.renders
    /\ count.renders - Len(frames) <= 1
    /\ \A k \in DOMAIN frames : frames[k].image = k
    /\ lastEvent.kind = "tick" =>
         /\ Called(calls) \cap HandlerCalls = {}
         /\ Calls(calls, "gpu.render") <= 1
         /\ Calls(calls, "tattoy.send_output") <= 1
         /\ lastEvent.outcome.kind = "Ok" <=> Len(frames) = count.renders
    /\ lastEvent.kind \in {"msg", "recv_err"} =>
         Called(calls) \subseteq HandlerCalls

\* Two ticks have submitted two frames, the first from the first image of
\* the pipeline and the second from the second.
C14_Witness ==
    /\ lastEvent.kind = "tick"
    /\ count.renders = 2
    /\ Len(frames) = 2
    /\ frames[1].image = 1
    /\ frames[2].image = 2
    /\ animated_cursor.gpu.renders = 2

\* C15: the orchestrator only reads the host's shared state: every step of
\* the task (subscription, construction, a render pass, a message with its
\* upload and handling) leaves config, tty_size and config_path as they were.
C15_SharedStateReadOnly ==
    [][ (pc' # pc \/ count' # count \/ calls' # calls
            \/ animated_cursor' # animated_cursor \/ frames' # frames)
        => state' = state ]_vars

\* Construction, an upload on a repaint and a render pass have run on a
\* config and a terminal size the host had changed, and both are as the
\* host wrote them.
C15_Witness ==
    /\ pc = "loop"
    /\ count.renders = 1
    /\ count.uploads = 1
    /\ state.config = ReloadedConfig
    /\ state.config_path = "config"
    /\ state.tty_size = [width |-> 2, height |-> 1]
    /\ animated_cursor.tattoy.width = 1

\* C16: End is never forwarded: no End is among the messages the pipeline's
\* handler or the layer base's handler were given, and the step that
\* receives End calls nothing: no upload, no handler.
C16_EndNotForwarded ==
    /\ \A i \in DOMAIN animated_cursor.gpu.msgs :
         animated_cursor.gpu.msgs[i].kind # "End"
    /\ \A i \in DOMAIN animated_cursor.tattoy.msgs :
         animated_cursor.tattoy.msgs[i].kind # "End"
    /\ EndReceived =>
         /\ calls = <<>>
         /\ Len(animated_cursor.gpu.msgs) = count.messages
         /\ animated_cursor.gpu.texture.uploads = count.uploads

\* A repaint was uploaded and forwarded to both handlers, then End was
\* received and went to neither.
C16_Witness ==
    /\ EndReceived
    /\ protocol.delivered = <<Msg("Repaint", 0, 0), Msg("End", 0, 0)>>
    /\ animated_cursor.gpu.msgs = <<Msg("Repaint", 0, 0)>>
    /\ animated_cursor.tattoy.msgs = <<Msg("Repaint", 0, 0)>>
    /\ animated_cursor.gpu.texture.uploads = 1

\* C17: an error of a render pass or of handling a received message ends
\* the loop: main has returned that error and nothing runs after it, and
\* the task ends with the one "GPU pipeline error" notification, as it does
\* for an error of construction; when the pipeline's handler is the call
\* that failed, the layer base's handler was not called for that message.
C17_ErrorsAreLoopFatal ==
    /\ (lastEvent.kind \in {"tick", "msg"} /\ lastEvent.outcome.kind = "Err") =>
         /\ Done
         /\ mainResult = lastEvent.outcome
         /\ count.steps = count.renders + count.messages + count.errors
    /\ mainResult.kind = "Err" =>
         notifications = <<Notification("GPU pipeline error", mainResult.point)>>
    /\ (lastEvent.kind = "msg"
            /\ lastEvent.outcome = Outcome("Err", "gpu.handle_protocol_message", 0, 0)) =>
         /\ Calls(calls, "gpu.handle_protocol_message") = 1
         /\ Calls(calls, "tattoy.handle_common_protocol_messages") = 0
         /\ Len(animated_cursor.tattoy.msgs) = count.messages - 1

\* The pipeline's handler failed on the second message: the layer base has
\* the first message only and the loop has ended with the error reported.
C17_Witness ==
    /\ Done
    /\ lastEvent.kind = "msg"
    /\ mainResult = Outcome("Err", "gpu.handle_protocol_message", 0, 0)
    /\ count.messages = 2
    /\ Len(animated_cursor.tattoy.msgs) = 1
    /\ Len(notifications) = 1
    /\ notifications[1].title = "GPU pipeline error"

\* C18: a successful render pass runs its steps in the order: cursor
\* position to the pipeline, opacity and layer read and applied to the layer
\* base, surface reinitialised, pipeline render, compositing, submission;
\* the opacity and the layer are applied before the surface is
\* reinitialised.
C18_AppliedBeforeReinitialised ==
    RenderSucceeded =>
        /\ calls = << "surface.cursor_position", "gpu.update_cursor_position",
                      "config.read", "tattoy.opacity_layer",
                      "tattoy.initialise_surface", "gpu.render", "composite",
                      "tattoy.send_output" >>
        /\ Before(calls, "tattoy.opacity_layer", "tattoy.initialise_surface")

\* The messages of a sequence that are forwarded: all but End.
Forwarded(messages) == SelectSeq(messages, LAMBDA m : m.kind # "End")

\* `short` is `long` or `long` without its last element.
AllButLast(short, long) ==
    \/ short = long
    \/ long # <<>> /\ short = SubSeq(long, 1, Len(long) - 1)

\* C19: messages are handled in the order the bus delivered them and whole
\* between ticks: while the loop runs, and so at every render pass, the
\* messages given to the pipeline's handler and to the layer base's handler
\* are the same sequence, the delivered messages in delivery order; only a
\* loop that ended on a handler's error leaves the layer base, or both, one
\* message behind.
C19_HandlersSeeSameMessages ==
    LET gpu == animated_cursor.gpu.msgs
        tattoy == animated_cursor.tattoy.msgs
        delivered == Forwarded(protocol.delivered)
    IN  /\ pc = "loop" => gpu = delivered /\ tattoy = delivered
        /\ lastEvent.kind = "tick" => gpu = tattoy
        /\ AllButLast(tattoy, gpu)
        /\ AllButLast(gpu, delivered)
        /\ (gpu # delivered \/ tattoy # gpu) => (Done /\ mainResult.kind # "Ok")

\* A resize and then a repaint were delivered and both handlers were given
\* the resize first and the repaint second.
C19_Witness ==
    /\ pc = "loop"
    /\ protocol.delivered = <<Msg("Resize", 1, 2), Msg("Repaint", 0, 0)>>
    /\ animated_cursor.gpu.msgs = protocol.delivered
    /\ animated_cursor.tattoy.msgs = protocol.delivered

\* C20: the receiver exists before the orchestrator is constructed, so a
\* message published during construction is kept: as long as the channel
\* has dropped nothing, the messages received so far followed by the ones
\* still queued are exactly what the host published, in that order, and
\* none is received before construction is over; so a message of the
\* construction time is received before every later one.
C20_EarlyMessagesKept ==
    /\ host.dropped = 0 => protocol.delivered \o protocol.queue = host.sent
    /\ pc \in {"start", "new"} => protocol.delivered = <<>>

\* A resize was published while the orchestrator was under construction and
\* End after it: the loop has handled the resize and then ended on End.
C20_Witness ==
    /\ host.early = 1
    /\ host.dropped = 0
    /\ host.sent = <<Msg("Resize", 1, 2), Msg("End", 0, 0)>>
    /\ protocol.delivered = host.sent
    /\ animated_cursor.gpu.msgs = <<Msg("Resize", 1, 2)>>
    /\ EndReceived
    /\ mainResult = OkOutcome

====
